---- MODULE Spec2Model ----
(***************************************************************************)
(* sunpy.instr.rhessi: back-projection of a RHESSI calibrated event list.  *)
(*                                                                         *)
(* _backproject builds the image of one detector, backprojection sums the  *)
(* images of the detectors named by det_index_mask and wraps the sum with  *)
(* a header.  Both are pure functions of the event-list file and of their  *)
(* arguments; one behaviour of the model is one call.                      *)
(*                                                                         *)
(* Numbers.  The code computes in double precision.  Here a real is a      *)
(* fixed-point integer in thousandths (Unit); count values, dimensions,    *)
(* detector numbers and times are plain integers.  A product of two reals  *)
(* is rounded down to a thousandth (Mul), where the code rounds to the     *)
(* nearest double.  cos is computed by range reduction and its series.     *)
(*                                                                         *)
(* Failures.  A Python exception is a result with ok = FALSE that names    *)
(* the exception; it propagates through every caller.                      *)
(***************************************************************************)
EXTENDS Integers, Sequences, FiniteSets, TLC

VARIABLES disk, pc, call, result

vars == <<disk, pc, call, result>>

----------------------------------------------------------------------------
(* Bounds of the model *)

\* pixel sizes are 1..MaxPixel arcsec
MaxPixel == 2
\* image dimensions of a _backproject call are -1..MaxDim
MaxDim == 3
\* image dimensions of a call in SpecAgg are -1..MaxDimAgg
MaxDimAgg == 2
\* detector numbers passed to _backproject are -DetSlack..NumDetectors+2
DetSlack == 10
\* event lists come in NumVariants variants; variant v has v samples a detector
NumVariants == 2
\* masks of SpecAgg have at most MaxActive detectors switched on
MaxActive == 3
\* count vectors are scaled by 0..MaxScale
MaxScale == 2

----------------------------------------------------------------------------
(* Fixed-point arithmetic *)

Unit == 10 * 100

Mul(a, b) == (a * b) \div Unit

Div(a, b) == (a * Unit) \div b

\* np.pi
Pi == 3142

TwoPi == 2 * Pi

\* the cosine series on [0, pi/2]
CosSeries(x) ==
    LET t1 == (x * x) \div Unit
        t2 == (t1 * t1) \div Unit
        t3 == (t2 * t1) \div Unit
    IN  Unit - (t1 \div 2) + (t2 \div 24) - (t3 \div 720)

\* cos on [0, 2 pi) by the symmetries of the cosine
CosReduced(r) ==
    LET h == IF r > Pi THEN TwoPi - r ELSE r
    IN  IF h > Pi \div 2 THEN 0 - CosSeries(Pi - h) ELSE CosSeries(h)

CosTable == [r \in 0..(TwoPi - 1) |-> CosReduced(r)]

\* np.cos
Cos(a) == CosTable[a % TwoPi]

\* np.sin
Sin(a) == Cos(a - (Pi \div 2))

----------------------------------------------------------------------------
(* Measured fixed grid parameters *)

NumDetectors == 9

grid_pitch ==
    <<4525, 7852, 13575, 23554, 40724, 70531, 122164, 211609, 366646>>

grid_orientation ==
    <<3535, 2750, 3536, 2750, 3926, 2356, 786, 1, 1571>>

----------------------------------------------------------------------------
(* Python sequences and the FITS reader *)

\* seq[i] of a Python tuple or list of length n: a negative i counts from the end
PyIndexOk(n, i) == i >= 0 - n /\ i < n

PyIndex(n, i) == IF i < 0 THEN n + i + 1 ELSE i + 1

\* hdu.data.field(name): no data (the primary HDU) or no such column fails
FieldError(hdu, name) ==
    IF ~hdu.has_data THEN "AttributeError"
    ELSE IF name \notin DOMAIN hdu.fields THEN "KeyError"
    ELSE "none"

FieldsError(hdu, names) ==
    LET bad == {k \in 1..Len(names) : FieldError(hdu, names[k]) # "none"}
        first == CHOOSE k \in bad : \A j \in bad : k <= j
    IN  IF bad = {} THEN [error |-> "none", read |-> Len(names)]
        ELSE [error |-> FieldError(hdu, names[first]), read |-> first - 1]

----------------------------------------------------------------------------
(* Event-list files *)

RHESSI_EVENT_LIST == "sunpy.RHESSI_EVENT_LIST"

UserFile == "user.fits"

FileNames == {RHESSI_EVENT_LIST, UserFile}

DetectorFields == <<"phase_map_ctr", "roll_angle", "modamp", "gridtran", "count">>

NoDamage == [kind |-> "none", det |-> 0]

\* the HDU of detector d lacks its count column
NoField(d) == [kind |-> "no_field", det |-> d]

\* the file ends before the HDU of detector d
NoRow(d) == [kind |-> "no_row", det |-> d]

\* the info HDU lacks the detector efficiency
NoEff == [kind |-> "no_eff", det |-> 0]

\* the samples of detector d in variant v; detector 1 of variant 1 is
\* modamp 0.5, gridtran 0.3, roll_angle 0, phase_map_ctr 0, count 10
DetectorColumns(d, v) ==
    ("phase_map_ctr" :> [k \in 1..v |-> 700 * (d - 1) + 1300 * (k - 1) + 400 * (v - 1)])
    @@ ("roll_angle" :> [k \in 1..v |-> 300 * (d - 1) + 1571 * (k - 1) + 900 * (v - 1)])
    @@ ("modamp" :> [k \in 1..v |-> 500 + 50 * (k - 1) + 100 * (v - 1)])
    @@ ("gridtran" :> [k \in 1..v |-> 300 - 20 * (k - 1)])
    @@ ("count" :> [k \in 1..v |-> 10 * k + (d - 1) + 3 * (v - 1)])

DetectorHDU(d, v, damage) ==
    LET cols == DetectorColumns(d, v)
        kept == IF damage = NoField(d) THEN DOMAIN cols \ {"count"} ELSE DOMAIN cols
    IN  [has_data |-> TRUE, fields |-> [n \in kept |-> cols[n]]]

InfoHDU(v, damage) ==
    LET cols == ("cbe_det_eff$$REL" :> <<[d \in 1..NumDetectors |-> Unit]>>)
                @@ ("USED_XYOFFSET" :> <<<<100 * v, 0 - 50 * v>>>>)
                @@ ("ABSOLUTE_TIME_RANGE" :> <<<<1000 * v, 1000 * v + 61>>>>)
        kept == IF damage = NoEff THEN DOMAIN cols \ {"cbe_det_eff$$REL"} ELSE DOMAIN cols
    IN  [has_data |-> TRUE, fields |-> [n \in kept |-> cols[n]]]

\* HDU 0 is the primary HDU, HDU 1 holds det_index_mask, HDU 2 the info
\* parameters, HDU d + 2 the samples of detector d
MkFile(mask, v, damage) ==
    LET last == IF damage.kind = "no_row" THEN damage.det - 1 ELSE NumDetectors
    IN  <<[has_data |-> FALSE],
          [has_data |-> TRUE, fields |-> ("det_index_mask" :> <<mask>>)],
          InfoHDU(v, damage)>>
        \o [d \in 1..last |-> DetectorHDU(d, v, damage)]

AllActive == [d \in 1..NumDetectors |-> 1]

----------------------------------------------------------------------------
(* _backproject *)

Failure(error, read) ==
    [ok |-> FALSE, error |-> error, fields_read |-> read, shape |-> <<>>, image |-> <<>>]

\* tempa centred on image_dim[0]/2 instead of (image_dim[0]-1)/2
tempa_half(image_dim, i) ==
    Unit * (i % image_dim[1]) - (Unit * image_dim[1]) \div 2

\* tempa: the raw x coordinate of flat index i
tempa(image_dim, i) ==
    Unit * (i % image_dim[1]) - (Unit * (image_dim[1] - 1)) \div 2

\* tempb: tempa reshaped to image_dim, transposed and flattened
tempb(image_dim, j) ==
    tempa(image_dim, (j % image_dim[1]) * image_dim[2] + (j \div image_dim[1]))

\* pixel with each coordinate scaled by its own pixel size
pixel_own_scale(image_dim, pixel_size, i) ==
    <<Mul(tempa(image_dim, i), pixel_size[1]), Mul(tempb(image_dim, i), pixel_size[2])>>

\* pixel: both coordinates are scaled by pixel_size[0]
pixel(image_dim, pixel_size, i) ==
    <<Mul(tempa(image_dim, i), pixel_size[1]), Mul(tempb(image_dim, i), pixel_size[1])>>

\* phase_pixel of pixel p and sample k
phase_pixel(p, harm_ang_pitch, grid_angle, this_roll_angle, phase_map_center, k) ==
    Mul(Div(TwoPi, harm_ang_pitch),
        Mul(p[1], Cos(this_roll_angle[k] - grid_angle))
        - Mul(p[2], Sin(this_roll_angle[k] - grid_angle)))
    + phase_map_center[k]

\* probability_of_transmission = gridmod * phase_modulation + grid_transmission
probability_of_transmission(modamp, grid_transmission, phase, k) ==
    Mul(Mul(modamp[k], grid_transmission[k]), Cos(phase)) + grid_transmission[k]

\* inner with the product replaced by a sum
RECURSIVE inner_plus(_, _, _)
inner_plus(prob, count, k) ==
    IF k = 0 THEN 0 ELSE (prob[k] + count[k]) + inner_plus(prob, count, k - 1)

\* np.inner of one row of probabilities with count
RECURSIVE inner(_, _, _)
inner(prob, count, k) ==
    IF k = 0 THEN 0 ELSE prob[k] * count[k] + inner(prob, count, k - 1)

\* lines 125-134, once every column is read (read columns so far)
bproj_image(hdu, detector_index, pixel_size, image_dim, read) ==
    LET d0 == image_dim[1]
        d1 == image_dim[2]
        n == d0 * d1
        grid_angle == Pi \div 2 - grid_orientation[detector_index]
        harm_ang_pitch == grid_pitch[detector_index]
        phase_map_center == hdu.fields["phase_map_ctr"]
        this_roll_angle == hdu.fields["roll_angle"]
        modamp == hdu.fields["modamp"]
        grid_transmission == hdu.fields["gridtran"]
        count == hdu.fields["count"]
        samples == Len(count)
        prob(i) == [k \in 1..samples |->
                      probability_of_transmission(modamp, grid_transmission,
                          phase_pixel(pixel(image_dim, pixel_size, i), harm_ang_pitch,
                                      grid_angle, this_roll_angle, phase_map_center, k),
                          k)]
    IN  IF (d0 < 0 /\ d1 < 0) \/ (d0 < 0 /\ d1 = 0) \/ (d0 = 0 /\ d1 < 0)
          THEN Failure("ValueError", read)      \* reshape refuses the shape
        ELSE IF n <= 0
          THEN Failure("IndexError", read)      \* pixel is empty: pixel[:,0]
        ELSE IF \E f \in {"phase_map_ctr", "roll_angle", "modamp", "gridtran"} :
                   Len(hdu.fields[f]) # samples
          THEN Failure("ValueError", read)      \* the columns do not broadcast
        ELSE [ok |-> TRUE, error |-> "none", fields_read |-> read,
              shape |-> image_dim,
              image |-> [q \in 1..n |-> inner(prob(q - 1), count, samples)]]

_backproject(fits, detector, pixel_size, image_dim) ==
    LET fits_detector_index == detector + 2
        detector_index == detector - 1
        hdus == Len(fits)
        eff == IF PyIndexOk(hdus, 2)
                 THEN FieldsError(fits[PyIndex(hdus, 2)], <<"cbe_det_eff$$REL">>)
                 ELSE [error |-> "IndexError", read |-> 0]
    IN  IF eff.error # "none" THEN Failure(eff.error, eff.read)
        ELSE IF ~PyIndexOk(NumDetectors, detector_index)
          THEN Failure("IndexError", eff.read)
        ELSE IF ~PyIndexOk(hdus, fits_detector_index)
          THEN Failure("IndexError", eff.read)
        ELSE LET hdu == fits[PyIndex(hdus, fits_detector_index)]
                 cols == FieldsError(hdu, DetectorFields)
             IN  IF cols.error # "none"
                   THEN Failure(cols.error, eff.read + cols.read)
                 ELSE bproj_image(hdu, PyIndex(NumDetectors, detector_index),
                                  pixel_size, image_dim, eff.read + cols.read)

----------------------------------------------------------------------------
(* backprojection *)

\* TimeRange.center(): the midpoint of the time range, to the second
center(time_range) == time_range[1] + (time_range[2] - time_range[1]) \div 2

\* sunpy.sun.sun.angular_size and sunearth_distance, by name only
angular_size(t) == <<"angular_size", t>>

sunearth_distance(t) == <<"sunearth_distance", t>>

AggFailure(error, read, calls) ==
    [ok |-> FALSE, error |-> error, fields_read |-> read, calls |-> calls,
     shape |-> <<>>, image |-> <<>>, header |-> <<>>]

\* np.zeros(image_dim)
zeros(image_dim) == [q \in 1..(image_dim[1] * image_dim[2]) |-> 0]

\* detector_list without the + 1
detector_list_from_zero(det_index_mask) ==
    [i \in 1..NumDetectors |-> (i - 1) * det_index_mask[i]]

\* (np.arange(9)+1) * np.array(det_index_mask)
detector_list(det_index_mask) ==
    [i \in 1..NumDetectors |-> i * det_index_mask[i]]

\* the loop's test as detector >= 0
is_used_or_zero(detector) == detector >= 0

\* if detector > 0
is_used(detector) == detector > 0

\* add_image that leaves out a detector whose back-projection failed
add_or_skip(acc, detector, r) ==
    IF ~r.ok
      THEN [acc EXCEPT !.calls = Append(@, detector),
                       !.fields_read = @ + r.fields_read]
      ELSE [acc EXCEPT !.calls = Append(@, detector),
                       !.fields_read = @ + r.fields_read,
                       !.image = [q \in DOMAIN @ |-> @[q] + r.image[q]]]

\* image = image + _backproject(...): a failure of _backproject propagates
add_image(acc, detector, r) ==
    IF ~r.ok
      THEN AggFailure(r.error, acc.fields_read + r.fields_read,
                      Append(acc.calls, detector))
      ELSE [acc EXCEPT !.calls = Append(@, detector),
                       !.fields_read = @ + r.fields_read,
                       !.image = [q \in DOMAIN @ |-> @[q] + r.image[q]]]

\* for detector in detector_list
RECURSIVE for_detector(_, _, _, _, _, _)
for_detector(fits, list, i, acc, pixel_size, image_dim) ==
    IF i > Len(list) \/ ~acc.ok THEN acc
    ELSE for_detector(fits, list, i + 1,
             IF is_used(list[i])
               THEN add_image(acc, list[i],
                              _backproject(fits, list[i], pixel_size, image_dim))
               ELSE acc,
             pixel_size, image_dim)

dict_header(time_range, xyoffset, pixel_size, image_dim) ==
    ("DATE-OBS" :> center(time_range))
    @@ ("CDELT1" :> pixel_size[1])
    @@ ("NAXIS1" :> image_dim[1])
    @@ ("CRVAL1" :> xyoffset[1])
    @@ ("CRPIX1" :> Unit * (image_dim[1] \div 2) + Unit \div 2)
    @@ ("CUNIT1" :> "arcsec")
    @@ ("CTYPE1" :> "HPLN-TAN")
    @@ ("CDELT2" :> pixel_size[2])
    @@ ("NAXIS2" :> image_dim[2])
    @@ ("CRVAL2" :> xyoffset[2])
    @@ ("CRPIX2" :> Unit * (image_dim[1] \div 2) + Unit \div 2)
    @@ ("CUNIT2" :> "arcsec")
    @@ ("CTYPE2" :> "HPLT-TAN")
    @@ ("HGLT_OBS" :> 0)
    @@ ("HGLN_OBS" :> 0)
    @@ ("RSUN_OBS" :> angular_size(center(time_range)))
    @@ ("RSUN_REF" :> "sun.radius")
    @@ ("DSUN_OBS" :> sunearth_distance(center(time_range)))

\* lines 183-221 on the opened file
backprojection_of(fits, pixel_size, image_dim) ==
    LET hdus == Len(fits)
        info == IF PyIndexOk(hdus, 2)
                  THEN FieldsError(fits[PyIndex(hdus, 2)],
                                   <<"USED_XYOFFSET", "ABSOLUTE_TIME_RANGE">>)
                  ELSE [error |-> "IndexError", read |-> 0]
        mask == FieldsError(fits[PyIndex(hdus, 1)], <<"det_index_mask">>)
    IN  IF info.error # "none" THEN AggFailure(info.error, info.read, <<>>)
        ELSE IF image_dim[1] < 0 \/ image_dim[2] < 0
          THEN AggFailure("ValueError", info.read, <<>>)     \* np.zeros
        ELSE IF mask.error # "none"
          THEN AggFailure(mask.error, info.read + mask.read, <<>>)
        ELSE LET info_parameters == fits[PyIndex(hdus, 2)].fields
                 xyoffset == info_parameters["USED_XYOFFSET"][1]
                 time_range == info_parameters["ABSOLUTE_TIME_RANGE"][1]
                 det_index_mask == fits[PyIndex(hdus, 1)].fields["det_index_mask"][1]
                 start == [ok |-> TRUE, error |-> "none",
                           fields_read |-> info.read + mask.read, calls |-> <<>>,
                           shape |-> image_dim, image |-> zeros(image_dim),
                           header |-> <<>>]
                 summed == for_detector(fits, detector_list(det_index_mask), 1,
                                        start, pixel_size, image_dim)
             IN  IF ~summed.ok THEN summed
                 ELSE [summed EXCEPT !.header =
                          dict_header(time_range, xyoffset, pixel_size, image_dim)]

\* line 182: the file read is sunpy.RHESSI_EVENT_LIST, whatever the argument
backprojection(files, calibrated_event_list, pixel_size, image_dim) ==
    backprojection_of(files[RHESSI_EVENT_LIST], pixel_size, image_dim)

----------------------------------------------------------------------------
(* One call *)

PixelSizes == {Unit * s : s \in 1..MaxPixel}

Dims == (-1)..MaxDim

Detectors == (0 - DetSlack)..(NumDetectors + 2)

Variants == 1..NumVariants

NoResult == Failure("not called", 0)

\* the event lists of Spec: every detector active; each variant whole, the
\* first variant also damaged
Files ==
    {MkFile(AllActive, v, NoDamage) : v \in Variants}
    \cup {MkFile(AllActive, 1, damage) : damage \in {NoField(2), NoRow(8), NoEff}}

Init ==
    /\ disk \in {[n \in FileNames |->
                    IF n = UserFile THEN f ELSE MkFile(AllActive, 1, NoDamage)] :
                 f \in Files}
    /\ pc = "ready"
    /\ call = [op |-> "none"]
    /\ result = NoResult

Call_backproject ==
    /\ pc = "ready"
    /\ \E name \in {UserFile}, detector \in Detectors :
       \E pixel_size \in PixelSizes \X PixelSizes, image_dim \in Dims \X Dims :
          /\ call' = [op |-> "_backproject", calibrated_event_list |-> name,
                      detector |-> detector, pixel_size |-> pixel_size,
                      image_dim |-> image_dim]
          /\ result' = _backproject(disk[name], detector, pixel_size, image_dim)
    /\ pc' = "returned"
    /\ UNCHANGED disk

Call_backprojection(sizes, dims) ==
    /\ pc = "ready"
    /\ \E name \in FileNames, pixel_size \in sizes, image_dim \in dims :
          /\ call' = [op |-> "backprojection", calibrated_event_list |-> name,
                      pixel_size |-> pixel_size, image_dim |-> image_dim]
          /\ result' = backprojection(disk, name, pixel_size, image_dim)
    /\ pc' = "returned"
    /\ UNCHANGED disk

Next ==
    \/ Call_backproject
    \/ Call_backprojection(PixelSizes \X PixelSizes, Dims \X Dims)

Spec == Init /\ [][Next]_vars

----------------------------------------------------------------------------
(* SpecAgg: backprojection over event lists that differ in det_index_mask  *)
(* and in the detector whose data is damaged                               *)

Active(mask) == {d \in 1..NumDetectors : mask[d] = 1}

Masks ==
    {m \in [1..NumDetectors -> {0, 1}] : Cardinality(Active(m)) <= MaxActive}

\* a column missing for one active detector, or the file cut at the last one
Damages(mask) ==
    {NoDamage}
    \cup {NoField(d) : d \in Active(mask)}
    \cup {NoRow(d) : d \in {a \in Active(mask) : \A b \in Active(mask) : b <= a}}

AggFiles ==
    UNION {{MkFile(m, 1, damage) : damage \in Damages(m)} : m \in Masks}

DimsAgg == (-1)..MaxDimAgg

InitAgg ==
    /\ disk \in {[n \in FileNames |->
                    IF n = RHESSI_EVENT_LIST THEN f
                    ELSE MkFile([d \in 1..NumDetectors |-> IF d = 1 THEN 1 ELSE 0],
                                NumVariants, NoDamage)] :
                 f \in AggFiles}
    /\ pc = "ready"
    /\ call = [op |-> "none"]
    /\ result = NoResult

NextAgg == Call_backprojection({<<Unit, Unit * MaxPixel>>}, DimsAgg \X DimsAgg)

SpecAgg == InitAgg /\ [][NextAgg]_vars

----------------------------------------------------------------------------
(* Properties *)

Returned(op) == pc = "returned" /\ call.op = op

\* the file backprojection reads, and what it reads from it
ReadMask == disk[RHESSI_EVENT_LIST][2].fields["det_index_mask"][1]

ReadInfo == disk[RHESSI_EVENT_LIST][3].fields

\* the image of detector d for the arguments of the call
DetectorImage(d) ==
    _backproject(disk[RHESSI_EVENT_LIST], d, call.pixel_size, call.image_dim)

\* the images of the detectors ds
DetectorImages(ds) == [d \in ds |-> DetectorImage(d)]

RECURSIVE SumAt(_, _, _)
SumAt(images, ds, q) ==
    IF ds = {} THEN 0
    ELSE LET d == CHOOSE e \in ds : TRUE
         IN  images[d].image[q] + SumAt(images, ds \ {d}, q)

RECURSIVE Ascending(_)
Ascending(ds) ==
    IF ds = {} THEN <<>>
    ELSE LET d == CHOOSE e \in ds : \A o \in ds : e <= o
         IN  <<d>> \o Ascending(ds \ {d})

PixelCount == call.image_dim[1] * call.image_dim[2]

\* C1: the image backprojection returns is the pixel-wise sum of the images
\* of exactly the detectors whose mask entry is 1, each back-projected once,
\* and no detector whose mask entry is 0 is back-projected.
C1_ImageIsSumOfActiveDetectors ==
    (Returned("backprojection") /\ result.ok) =>
        LET images == DetectorImages(Active(ReadMask))
        IN  /\ result.calls = Ascending(Active(ReadMask))
            /\ Len(result.image) = PixelCount
            /\ \A d \in Active(ReadMask) : images[d].ok
            /\ \A q \in 1..PixelCount :
                  result.image[q] = SumAt(images, Active(ReadMask), q)

C1_Witness ==
    /\ Returned("backprojection") /\ result.ok
    /\ Cardinality(Active(ReadMask)) = 2
    /\ ReadMask[1] = 0
    /\ call.image_dim = <<2, 2>>
    /\ \E q \in 1..PixelCount : result.image[q] # 0

\* C2: backprojection computes its map from the event list named by its
\* calibrated_event_list argument.
C2_MapComesFromNamedFile ==
    (/\ Returned("backprojection") /\ result.ok
     /\ call.image_dim[1] > 0 /\ call.image_dim[2] > 0) =>
        result = backprojection_of(disk[call.calibrated_event_list],
                                   call.pixel_size, call.image_dim)

\* C3: with an all-zero det_index_mask (and positive image dimensions)
\* backprojection succeeds, returns the all-zero image of shape image_dim with
\* a populated header (CRVAL1/CRVAL2 the xyoffset, DATE-OBS the midpoint of
\* the time range) and never calls _backproject.
C3_AllZeroMaskGivesZeroImage ==
    (/\ Returned("backprojection")
     /\ Active(ReadMask) = {}
     /\ call.image_dim[1] > 0 /\ call.image_dim[2] > 0) =>
        /\ result.ok
        /\ result.calls = <<>>
        /\ result.shape = call.image_dim
        /\ result.image = [q \in 1..PixelCount |-> 0]
        /\ {"DATE-OBS", "CDELT1", "NAXIS1", "CRVAL1", "CRPIX1", "CUNIT1", "CTYPE1",
            "CDELT2", "NAXIS2", "CRVAL2", "CRPIX2", "CUNIT2", "CTYPE2",
            "HGLT_OBS", "HGLN_OBS", "RSUN_OBS", "RSUN_REF", "DSUN_OBS"}
           \subseteq DOMAIN result.header
        /\ result.header["CRVAL1"] = ReadInfo["USED_XYOFFSET"][1][1]
        /\ result.header["CRVAL2"] = ReadInfo["USED_XYOFFSET"][1][2]
        /\ result.header["DATE-OBS"] =
             (ReadInfo["ABSOLUTE_TIME_RANGE"][1][1]
              + ReadInfo["ABSOLUTE_TIME_RANGE"][1][2]) \div 2

C3_Witness ==
    /\ Returned("backprojection")
    /\ Active(ReadMask) = {}
    /\ call.image_dim = <<2, 1>>
    /\ result.ok
    /\ result.image = <<0, 0>>

\* C4: for every detector outside 1..9 _backproject fails and returns no image.
C4_DetectorOutOfRangeFails ==
    (Returned("_backproject") /\ call.detector \notin 1..NumDetectors) =>
        ~result.ok

\* C5: with a zero or negative component of image_dim, _backproject and
\* backprojection fail before any table field is read, whatever the mask.
C5_BadDimensionsFailBeforeAnyRead ==
    (/\ pc = "returned"
     /\ (call.image_dim[1] <= 0 \/ call.image_dim[2] <= 0)) =>
        (~result.ok /\ result.fields_read = 0)

\* the event list with every count multiplied by c
ScaleCounts(fits, c) ==
    [h \in DOMAIN fits |->
        IF fits[h].has_data /\ "count" \in DOMAIN fits[h].fields
          THEN [fits[h] EXCEPT !.fields["count"] = [k \in DOMAIN @ |-> c * @[k]]]
          ELSE fits[h]]

\* C6: _backproject is linear in count: multiplying every count by c
\* multiplies every pixel by c (c = 0: an all-zero image).
C6_LinearInCount ==
    (Returned("_backproject") /\ result.ok) =>
        \A c \in (0..MaxScale) \ {1} :
            LET scaled == _backproject(ScaleCounts(disk[call.calibrated_event_list], c),
                                       call.detector, call.pixel_size, call.image_dim)
            IN  /\ scaled.ok
                /\ scaled.shape = result.shape
                /\ scaled.image = [q \in 1..PixelCount |-> c * result.image[q]]

C6_Witness ==
    /\ Returned("_backproject") /\ result.ok
    /\ call.detector \in 1..NumDetectors
    /\ call.image_dim = <<2, 3>>
    /\ \A q \in 1..PixelCount : result.image[q] > 0
    /\ Len(disk[call.calibrated_event_list][call.detector + 3].fields["count"]) > 1

\* the columns of a valid detector of the file of the call
CallColumns == disk[call.calibrated_event_list][call.detector + 3].fields

RECURSIVE CentreValue(_, _)
CentreValue(cols, k) ==
    IF k = 0 THEN 0
    ELSE cols["count"][k]
           * (Mul(Mul(cols["modamp"][k], cols["gridtran"][k]),
                  Cos(cols["phase_map_ctr"][k]))
              + cols["gridtran"][k])
         + CentreValue(cols, k - 1)

\* C7: for image_dim = (N, N) with N odd the centre pixel is
\* sum_k count[k] * (modamp[k]*gridtran[k]*cos(phase_map_ctr[k]) + gridtran[k]),
\* whatever the grid pitch and orientation, roll_angle and pixel_size.
C7_CentrePixelOfOddSquare ==
    (/\ Returned("_backproject") /\ result.ok
     /\ call.detector \in 1..NumDetectors
     /\ call.image_dim[1] = call.image_dim[2]
     /\ call.image_dim[1] % 2 = 1) =>
        result.image[(PixelCount + 1) \div 2]
            = CentreValue(CallColumns, Len(CallColumns["count"]))

\* modamp 0.5, gridtran 0.3, phase_map_ctr 0, count 10 on 3 x 3 pixels: 4.5
C7_Witness ==
    /\ Returned("_backproject") /\ result.ok
    /\ call.detector = 1
    /\ call.image_dim = <<3, 3>>
    /\ CallColumns["modamp"] = <<500>>
    /\ CallColumns["gridtran"] = <<300>>
    /\ CallColumns["phase_map_ctr"] = <<0>>
    /\ CallColumns["count"] = <<10>>
    /\ result.image[5] = 4500
    /\ result.image[1] # 4500

\* the event list read has no row for detector d, or the row lacks a column
Unreadable(d) ==
    \/ d + 3 > Len(disk[RHESSI_EVENT_LIST])
    \/ \E k \in 1..Len(DetectorFields) :
          DetectorFields[k] \notin DOMAIN disk[RHESSI_EVENT_LIST][d + 3].fields

\* C8: when the back-projection of a detector whose mask entry is 1 fails,
\* backprojection fails and returns no map.
C8_DetectorFailureFailsTheCall ==
    (/\ Returned("backprojection")
     /\ \E d \in Active(ReadMask) : Unreadable(d)) =>
        (~result.ok /\ result.image = <<>> /\ result.header = <<>>)

\* three active detectors, the middle one without its count column
C8_Witness ==
    /\ Returned("backprojection")
    /\ call.image_dim = <<2, 2>>
    /\ \E a, b, c \in Active(ReadMask) :
          /\ a < b /\ b < c
          /\ ~Unreadable(a) /\ Unreadable(b) /\ ~Unreadable(c)
          /\ DetectorImage(a).ok /\ ~DetectorImage(b).ok /\ DetectorImage(c).ok
    /\ ~result.ok

\* C9: the image does not depend on pixel_size[1]: _backproject returns the
\* same result for every second component of pixel_size, and backprojection
\* the same map but for its CDELT2 entry, which is pixel_size[1].
C9_ImageIgnoresSecondPixelSize ==
    /\ Returned("_backproject") =>
          \A s \in PixelSizes \ {call.pixel_size[2]} :
              _backproject(disk[call.calibrated_event_list], call.detector,
                           <<call.pixel_size[1], s>>, call.image_dim) = result
    /\ Returned("backprojection") =>
          \A s \in PixelSizes \ {call.pixel_size[2]} :
              LET other == backprojection(disk, call.calibrated_event_list,
                                          <<call.pixel_size[1], s>>, call.image_dim)
              IN  /\ other.ok = result.ok
                  /\ other.image = result.image
                  /\ result.ok =>
                        /\ result.header["CDELT2"] = call.pixel_size[2]
                        /\ other.header["CDELT2"] = s
                        /\ \A key \in DOMAIN result.header \ {"CDELT2"} :
                              other.header[key] = result.header[key]

C9_Witness ==
    /\ Returned("_backproject") /\ result.ok
    /\ call.pixel_size[1] # call.pixel_size[2]
    /\ call.image_dim = <<2, 2>>
    /\ result.image[1] # result.image[3]

\* C10: the header describes each axis from that axis's own dimension:
\* NAXIS1 = image_dim[0], CRPIX1 = image_dim[0]/2 + 0.5,
\* NAXIS2 = image_dim[1], CRPIX2 = image_dim[1]/2 + 0.5.
C10_HeaderAxesFromOwnDimension ==
    (/\ Returned("backprojection") /\ result.ok
     /\ call.image_dim[1] > 0 /\ call.image_dim[2] > 0) =>
        /\ result.header["NAXIS1"] = call.image_dim[1]
        /\ result.header["CRPIX1"] = Unit * (call.image_dim[1] \div 2) + Unit \div 2
        /\ result.header["NAXIS2"] = call.image_dim[2]
        /\ result.header["CRPIX2"] = Unit * (call.image_dim[2] \div 2) + Unit \div 2

====
